---- MODULE Spec2Model ----
(***************************************************************************)
(* A model of the Network Lab Generator (src/app.py), a Streamlit script.  *)
(* The script is re-run top to bottom on every user interaction; the only  *)
(* state that survives a run is st.session_state.  Texts (the prompt, the  *)
(* provider's response, the connection strings) are sequences of           *)
(* one-character strings, so that str.replace, str.split, str.strip and    *)
(* json.loads are computed character by character as Python computes them. *)
(***************************************************************************)
EXTENDS Integers, Sequences, FiniteSets, TLC

\* The grave accent.  The TLA+ lexer admits no grave accent inside a string
\* literal, so the character is named; every other character is itself.
BT == "backtick"

Min(S) == CHOOSE m \in S : \A n \in S : m <= n

Max(S) == CHOOSE m \in S : \A n \in S : m >= n

(***************************************************************************)
(* Python's str methods used by the script.                                *)
(***************************************************************************)

\* sub occurs in s at index i (1-based).
OccursAt(s, sub, i) ==
    /\ i >= 1
    /\ i + Len(sub) - 1 <= Len(s)
    /\ SubSeq(s, i, i + Len(sub) - 1) = sub

\* str.find: the lowest index >= from where sub occurs in s, 0 when none.
Find(s, sub, from) ==
    LET I == {i \in from..(Len(s) - Len(sub) + 1) : OccursAt(s, sub, i)}
    IN  IF I = {} THEN 0 ELSE Min(I)

\* sub in s
Contains(s, sub) == Find(s, sub, 1) # 0

\* str.replace(old, new): every non-overlapping occurrence, leftmost first.
RECURSIVE str_replace(_, _, _)
str_replace(s, old, new) ==
    LET i == Find(s, old, 1)
    IN  IF i = 0
        THEN s
        ELSE SubSeq(s, 1, i - 1) \o new
             \o str_replace(SubSeq(s, i + Len(old), Len(s)), old, new)

\* A variant of str_split that splits at the first occurrence only, as
\* str.split(sep, 1) would.
str_split_once(s, sep) ==
    LET i == Find(s, sep, 1)
    IN  IF i = 0
        THEN <<s>>
        ELSE <<SubSeq(s, 1, i - 1), SubSeq(s, i + Len(sep), Len(s))>>

\* str.split(sep): the segments between the non-overlapping occurrences of
\* sep, all of them (no maxsplit); one segment when sep does not occur.
RECURSIVE str_split(_, _)
str_split(s, sep) ==
    LET i == Find(s, sep, 1)
    IN  IF i = 0
        THEN <<s>>
        ELSE <<SubSeq(s, 1, i - 1)>>
             \o str_split(SubSeq(s, i + Len(sep), Len(s)), sep)

\* The whitespace str.strip() removes, among the characters of the model.
Whitespace == {" ", "\t", "\n", "\r"}

\* str.strip(): leading and trailing whitespace removed.
str_strip(s) ==
    LET K == {i \in 1..Len(s) : s[i] \notin Whitespace}
    IN  IF K = {} THEN <<>> ELSE SubSeq(s, Min(K), Max(K))

(***************************************************************************)
(* Python values as json.loads builds them.  Every value is a record of    *)
(* the same shape; kind says which field carries it:                       *)
(*   "null" (None), "true", "false", "num" (num), "str" (str),             *)
(*   "arr" (items, a list), "obj" (keys and vals, a dict in insertion      *)
(*   order).                                                               *)
(***************************************************************************)
JVal(k, s, n, items, keys, vals) ==
    [kind |-> k, str |-> s, num |-> n, items |-> items, keys |-> keys, vals |-> vals]

None == JVal("null", <<>>, 0, <<>>, <<>>, <<>>)

JTrue == JVal("true", <<>>, 0, <<>>, <<>>, <<>>)

JFalse == JVal("false", <<>>, 0, <<>>, <<>>, <<>>)

JNum(n) == JVal("num", <<>>, n, <<>>, <<>>, <<>>)

JStr(s) == JVal("str", s, 0, <<>>, <<>>, <<>>)

JArr(items) == JVal("arr", <<>>, 0, items, <<>>, <<>>)

JObj(keys, vals) == JVal("obj", <<>>, 0, <<>>, keys, vals)

\* key in d, for a dict d
HasKey(d, key) == \E p \in 1..Len(d.keys) : d.keys[p] = key

\* d[key], for a dict d that has the key
Lookup(d, key) == d.vals[CHOOSE p \in 1..Len(d.keys) : d.keys[p] = key]

\* d[key] = v on the dict under construction: a repeated key keeps its place
\* and takes the later value.
DictSet(d, key, v) ==
    IF HasKey(d, key)
    THEN JObj(d.keys, [d.vals EXCEPT ![CHOOSE p \in 1..Len(d.keys) : d.keys[p] = key] = v])
    ELSE JObj(Append(d.keys, key), Append(d.vals, v))

\* bool(v): None, False, 0, "", [] and {} are falsy.
Truthy(v) ==
    CASE v.kind = "null" -> FALSE
      [] v.kind = "false" -> FALSE
      [] v.kind = "true" -> TRUE
      [] v.kind = "num" -> v.num # 0
      [] v.kind = "str" -> Len(v.str) > 0
      [] v.kind = "arr" -> Len(v.items) > 0
      [] OTHER -> Len(v.keys) > 0

(***************************************************************************)
(* json.loads, for texts without floats, \u escapes, NaN and Infinity      *)
(* (the texts of the model hold none).  A parse step yields                *)
(* [ok, v, next]: whether it succeeded, the value, the index after it.     *)
(***************************************************************************)
Digits == {"0", "1", "2", "3", "4", "5", "6", "7", "8", "9"}

DigitVal(c) ==
    CASE c = "0" -> 0 [] c = "1" -> 1 [] c = "2" -> 2 [] c = "3" -> 3 [] c = "4" -> 4
      [] c = "5" -> 5 [] c = "6" -> 6 [] c = "7" -> 7 [] c = "8" -> 8 [] OTHER -> 9

\* Control characters a JSON string may not hold unescaped (strict mode).
ControlChars == {"\t", "\n", "\r"}

\* The character a backslash escape stands for; "" when the escape is not one.
Unescape(c) ==
    CASE c = "\"" -> "\"" [] c = "\\" -> "\\" [] c = "/" -> "/"
      [] c = "n" -> "\n" [] c = "t" -> "\t" [] c = "r" -> "\r" [] OTHER -> ""

ParseFail == [ok |-> FALSE, v |-> None, next |-> 0]

ParseOk(v, next) == [ok |-> TRUE, v |-> v, next |-> next]

\* The index of the first non-whitespace character at or after i.
SkipWs(s, i) ==
    LET J == {j \in i..Len(s) : s[j] \notin Whitespace}
    IN  IF J = {} THEN Len(s) + 1 ELSE Min(J)

\* The rest of a string literal whose opening quote is before index i.
RECURSIVE ScanString(_, _, _)
ScanString(s, i, acc) ==
    IF i > Len(s) THEN ParseFail
    ELSE IF s[i] = "\"" THEN ParseOk(JStr(acc), i + 1)
    ELSE IF s[i] = "\\"
         THEN IF i + 1 <= Len(s) /\ Unescape(s[i + 1]) # ""
              THEN ScanString(s, i + 2, Append(acc, Unescape(s[i + 1])))
              ELSE ParseFail
    ELSE IF s[i] \in ControlChars THEN ParseFail
    ELSE ScanString(s, i + 1, Append(acc, s[i]))

RECURSIVE DecimalValue(_)
DecimalValue(ds) ==
    IF ds = <<>> THEN 0
    ELSE 10 * DecimalValue(SubSeq(ds, 1, Len(ds) - 1)) + DigitVal(ds[Len(ds)])

\* An integer literal at i: -?(0|[1-9][0-9]*)
ParseNumber(s, i) ==
    LET j == IF s[i] = "-" THEN i + 1 ELSE i
        E == {k \in j..Len(s) : s[k] \notin Digits}
        stop == IF E = {} THEN Len(s) + 1 ELSE Min(E)
        end == IF j <= Len(s) /\ s[j] = "0" THEN j + 1 ELSE stop
        n == DecimalValue(SubSeq(s, j, end - 1))
    IN  IF j > Len(s) \/ s[j] \notin Digits
        THEN ParseFail
        ELSE ParseOk(JNum(IF s[i] = "-" THEN 0 - n ELSE n), end)

RECURSIVE ParseValue(_, _), ParseElements(_, _, _), ParseMembers(_, _, _)

\* scan_once: the value that starts exactly at index i.
ParseValue(s, i) ==
    IF i > Len(s) THEN ParseFail
    ELSE IF s[i] = "\"" THEN ScanString(s, i + 1, <<>>)
    ELSE IF s[i] = "{"
         THEN LET j == SkipWs(s, i + 1)
              IN  IF j > Len(s) THEN ParseFail
                  ELSE IF s[j] = "}" THEN ParseOk(JObj(<<>>, <<>>), j + 1)
                  ELSE IF s[j] = "\"" THEN ParseMembers(s, j, JObj(<<>>, <<>>))
                  ELSE ParseFail
    ELSE IF s[i] = "["
         THEN LET j == SkipWs(s, i + 1)
              IN  IF j > Len(s) THEN ParseFail
                  ELSE IF s[j] = "]" THEN ParseOk(JArr(<<>>), j + 1)
                  ELSE ParseElements(s, j, <<>>)
    ELSE IF OccursAt(s, <<"n", "u", "l", "l">>, i) THEN ParseOk(None, i + 4)
    ELSE IF OccursAt(s, <<"t", "r", "u", "e">>, i) THEN ParseOk(JTrue, i + 4)
    ELSE IF OccursAt(s, <<"f", "a", "l", "s", "e">>, i) THEN ParseOk(JFalse, i + 5)
    ELSE IF s[i] \in Digits \cup {"-"} THEN ParseNumber(s, i)
    ELSE ParseFail

\* JSONArray: the elements from index i on, after those in acc.
ParseElements(s, i, acc) ==
    LET r == ParseValue(s, i)
        j == SkipWs(s, r.next)
    IN  IF ~r.ok \/ j > Len(s) THEN ParseFail
        ELSE IF s[j] = "]" THEN ParseOk(JArr(Append(acc, r.v)), j + 1)
        ELSE IF s[j] = "," THEN ParseElements(s, SkipWs(s, j + 1), Append(acc, r.v))
        ELSE ParseFail

\* JSONObject: the members from the key's opening quote at index i on, added
\* to the dict d.
ParseMembers(s, i, d) ==
    LET k == ScanString(s, i + 1, <<>>)
        c == SkipWs(s, k.next)
        r == ParseValue(s, SkipWs(s, c + 1))
        j == SkipWs(s, r.next)
        n == SkipWs(s, j + 1)
    IN  IF ~k.ok \/ c > Len(s) THEN ParseFail
        ELSE IF s[c] # ":" THEN ParseFail
        ELSE IF ~r.ok \/ j > Len(s) THEN ParseFail
        ELSE IF s[j] = "}" THEN ParseOk(DictSet(d, k.v.str, r.v), j + 1)
        ELSE IF s[j] = "," /\ n <= Len(s) /\ s[n] = "\""
             THEN ParseMembers(s, n, DictSet(d, k.v.str, r.v))
        ELSE ParseFail

\* json.loads(text): [ok, v]; ok is FALSE where json.loads raises.
json_loads(text) ==
    LET r == ParseValue(text, SkipWs(text, 1))
    IN  IF r.ok /\ SkipWs(text, r.next) = Len(text) + 1
        THEN [ok |-> TRUE, v |-> r.v]
        ELSE [ok |-> FALSE, v |-> None]

(***************************************************************************)
(* The sidebar's controls (lines 12-14).                                    *)
(***************************************************************************)
TopicOSPF ==
    <<"O","S","P","F"," ","S","i","n","g","l","e"," ","A","r","e","a">>

TopicVLAN ==
    <<"V","L","A","N","s"," ","&"," ","T","r","u","n","k","i","n","g">>

TopicACL ==
    <<"A","C","L"," ","(","S","t","a","n","d","a","r","d","/","E","x","t","e","n","d","e","d",")">>

TopicNAT ==
    <<"N","A","T"," ","(","S","t","a","t","i","c","/","D","y","n","a","m","i","c",")">>

TopicBGP ==
    <<"B","G","P"," ","B","a","s","i","c","s">>

\* st.sidebar.selectbox("Select Topic", [...])
Topics == {TopicOSPF, TopicVLAN, TopicACL, TopicNAT, TopicBGP}

DifficultyJunior ==
    <<"J","u","n","i","o","r"," ","A","d","m","i","n">>

DifficultyEngineer ==
    <<"N","e","t","w","o","r","k"," ","E","n","g","i","n","e","e","r">>

DifficultyExpert ==
    <<"C","C","I","E"," ","E","x","p","e","r","t">>

\* st.sidebar.select_slider("Difficulty Level", [...])
Difficulties == {DifficultyJunior, DifficultyEngineer, DifficultyExpert}

(***************************************************************************)
(* get_lab_prompt (lines 18-44): the f-string's three literal parts, with   *)
(* {{ and }} already read as { and }.                                      *)
(***************************************************************************)
PromptHead ==
    <<"\n"," "," "," "," ","A","c","t"," ","a","s"," ","a"," ","C","i","s","c","o"," ","C","e",
      "r","t","i","f","i","e","d"," ","I","n","t","e","r","n","e","t","w","o","r","k"," ","E","x",
      "p","e","r","t"," ","(","C","C","I","E",")",".","\n"," "," "," "," ","C","r","e","a","t",
      "e"," ","a"," ","C","C","N","A"," ","P","r","a","c","t","i","c","e"," ","L","a","b"," ","f",
      "o","r"," ","t","h","e"," ","t","o","p","i","c",":"," ">>

PromptMid ==
    <<".","\n"," "," "," "," ","D","i","f","f","i","c","u","l","t","y"," ","L","e","v","e","l",
      ":"," ">>

PromptTail ==
    <<".","\n","\n"," "," "," "," ","Y","o","u"," ","M","U","S","T"," ","r","e","t","u","r","n",
      " ","t","h","e"," ","o","u","t","p","u","t"," ","i","n"," ","v","a","l","i","d"," ","J","S",
      "O","N"," ","f","o","r","m","a","t"," ","O","N","L","Y","."," ","D","o"," ","n","o","t"," ",
      "a","d","d"," ","m","a","r","k","d","o","w","n"," ","b","a","c","k","t","i","c","k","s"," ",
      "(",BT,BT,BT,"j","s","o","n",")",".","\n"," "," "," "," ","S","t","r","u","c","t","u","r",
      "e"," ","t","h","e"," ","J","S","O","N"," ","e","x","a","c","t","l","y"," ","l","i","k","e",
      " ","t","h","i","s",":","\n"," "," "," "," ","{","\n"," "," "," "," "," "," "," "," ","\"",
      "l","a","b","_","t","i","t","l","e","\"",":"," ","\"","S","t","r","i","n","g","\"",",","\n",
      " "," "," "," "," "," "," "," ","\"","s","c","e","n","a","r","i","o","_","d","e","s","c",
      "r","i","p","t","i","o","n","\"",":"," ","\"","S","t","r","i","n","g"," ","(","S","h","o",
      "r","t"," ","b","u","s","i","n","e","s","s"," ","c","o","n","t","e","x","t",")","\"",",",
      "\n"," "," "," "," "," "," "," "," ","\"","t","o","p","o","l","o","g","y","_","c","o","n",
      "n","e","c","t","i","o","n","s","\"",":"," ","[","\n"," "," "," "," "," "," "," "," "," ",
      " "," "," ","\"","R","o","u","t","e","r","1"," ","(","G","0","/","0",")"," ","-",">"," ",
      "S","w","i","t","c","h","1"," ","(","G","0","/","1",")","\"",",","\n"," "," "," "," "," ",
      " "," "," "," "," "," "," ","\"","S","w","i","t","c","h","1"," ","(","F","0","/","1",")",
      " ","-",">"," ","P","C","1","\"","\n"," "," "," "," "," "," "," "," ","]",",","\n"," "," ",
      " "," "," "," "," "," ","\"","d","e","v","i","c","e","_","c","o","n","f","i","g","u","r",
      "a","t","i","o","n","s","\"",":"," ","{","\n"," "," "," "," "," "," "," "," "," "," "," ",
      " ","\"","R","o","u","t","e","r","1","\"",":"," ","\"","I","P",":"," ","1","9","2",".","1",
      "6","8",".","1",".","1","/","2","4","\"",",","\n"," "," "," "," "," "," "," "," "," "," ",
      " "," ","\"","P","C","1","\"",":"," ","\"","I","P",":"," ","1","9","2",".","1","6","8",".",
      "1",".","1","0","/","2","4","\"","\n"," "," "," "," "," "," "," "," ","}",",","\n"," "," ",
      " "," "," "," "," "," ","\"","t","a","s","k","s","\"",":"," ","[","\n"," "," "," "," "," ",
      " "," "," "," "," "," "," ","\"","S","t","e","p"," ","1",":"," ",".",".",".","\"",",","\n",
      " "," "," "," "," "," "," "," "," "," "," "," ","\"","S","t","e","p"," ","2",":"," ",".",
      ".",".","\"","\n"," "," "," "," "," "," "," "," ","]",",","\n"," "," "," "," "," "," "," ",
      " ","\"","s","o","l","u","t","i","o","n","_","c","o","m","m","a","n","d","s","\"",":"," ",
      "\"","F","u","l","l"," ","I","O","S"," ","c","o","m","m","a","n","d"," ","l","i","s","t",
      " ","t","o"," ","s","o","l","v","e"," ","i","t","\"",",","\n"," "," "," "," "," "," "," ",
      " ","\"","v","e","r","i","f","i","c","a","t","i","o","n","_","c","o","m","m","a","n","d",
      "s","\"",":"," ","\"","L","i","s","t"," ","o","f"," ","'","s","h","o","w","'"," ","c","o",
      "m","m","a","n","d","s"," ","t","o"," ","v","e","r","i","f","y","\"","\n"," "," "," "," ",
      "}","\n"," "," "," "," ">>

\* A variant of get_lab_prompt whose template lost the {difficulty} placeholder.
get_lab_prompt_no_difficulty(t, d) == PromptHead \o t \o PromptMid \o PromptTail

get_lab_prompt(t, d) == PromptHead \o t \o PromptMid \o d \o PromptTail

(***************************************************************************)
(* The keys the display logic reads from the Lab (lines 82-119).            *)
(***************************************************************************)
K_lab_title ==
    <<"l","a","b","_","t","i","t","l","e">>

K_scenario_description ==
    <<"s","c","e","n","a","r","i","o","_","d","e","s","c","r","i","p","t","i","o","n">>

K_topology_connections ==
    <<"t","o","p","o","l","o","g","y","_","c","o","n","n","e","c","t","i","o","n","s">>

K_device_configurations ==
    <<"d","e","v","i","c","e","_","c","o","n","f","i","g","u","r","a","t","i","o","n","s">>

K_tasks ==
    <<"t","a","s","k","s">>

K_solution_commands ==
    <<"s","o","l","u","t","i","o","n","_","c","o","m","m","a","n","d","s">>

K_verification_commands ==
    <<"v","e","r","i","f","i","c","a","t","i","o","n","_","c","o","m","m","a","n","d","s">>

\* The seven fields of a Lab, in the order of the prompt's skeleton.
LabKeys ==
    <<K_lab_title,
      K_scenario_description,
      K_topology_connections,
      K_device_configurations,
      K_tasks,
      K_solution_commands,
      K_verification_commands>>

(***************************************************************************)
(* What the model provider may answer to generate_content (line 57): the   *)
(* call raises, or it returns a response whose text is one of these.       *)
(***************************************************************************)
\* Prose instead of JSON.
TextNotJson ==
    <<"S","o","r","r","y",","," ","n","o"," ","l","a","b",".">>

\* JSON null.
TextNull ==
    <<"n","u","l","l">>

\* An empty JSON object.
TextEmptyObject ==
    <<"{","}">>

\* A JSON array.
TextList ==
    <<"[","1","]">>

\* A JSON object with two of the seven fields.
TextPartialLab ==
    <<"{","\"","l","a","b","_","t","i","t","l","e","\"",":","\"","P","\"",",","\"","t","a","s",
      "k","s","\"",":","[","\"","S","t","e","p"," ","1","\"","]","}">>

\* A Lab with all seven fields, fenced.
TextLabA ==
    <<BT,BT,BT,"j","s","o","n","\n","{","\"","l","a","b","_","t","i","t","l","e","\"",":","\"",
      "A","\"",",","\"","s","c","e","n","a","r","i","o","_","d","e","s","c","r","i","p","t","i",
      "o","n","\"",":","\"","S","\"",",","\"","t","o","p","o","l","o","g","y","_","c","o","n","n",
      "e","c","t","i","o","n","s","\"",":","[","\"","R","1"," ","(","G","0","/","0",")"," ","-",
      ">"," ","S","1"," ","(","G","0","/","1",")","\"",",","\"","g","a","r","b","a","g","e","-",
      "n","o","-","a","r","r","o","w","\"",",","\"","S","1"," ","-",">"," ","P","C","1","\"","]",
      ",","\"","d","e","v","i","c","e","_","c","o","n","f","i","g","u","r","a","t","i","o","n",
      "s","\"",":","{","\"","R","1","\"",":","\"","I","P",":"," ","1","0",".","0",".","0",".","1",
      "/","2","4","\"","}",",","\"","t","a","s","k","s","\"",":","[","\"","S","t","e","p"," ","1",
      "\"",",","\"","S","t","e","p"," ","2","\"","]",",","\"","s","o","l","u","t","i","o","n","_",
      "c","o","m","m","a","n","d","s","\"",":","\"","c","o","n","f"," ","t","\"",",","\"","v","e",
      "r","i","f","i","c","a","t","i","o","n","_","c","o","m","m","a","n","d","s","\"",":","\"",
      "s","h","o","w"," ","i","p"," ","r","o","u","t","e","\"","}","\n",BT,BT,BT>>

\* A Lab with all seven fields, bare; its connections are not all well-formed.
TextLabB ==
    <<"{","\"","l","a","b","_","t","i","t","l","e","\"",":","\"","B","\"",",","\"","s","c","e",
      "n","a","r","i","o","_","d","e","s","c","r","i","p","t","i","o","n","\"",":","\"","T","\"",
      ",","\"","t","o","p","o","l","o","g","y","_","c","o","n","n","e","c","t","i","o","n","s",
      "\"",":","[","\"","-",">"," ","P","C","2","\"",",","\"","R","2"," ","-",">"," ","S","2"," ",
      "-",">"," ","P","C","2","\"",",","7","]",",","\"","d","e","v","i","c","e","_","c","o","n",
      "f","i","g","u","r","a","t","i","o","n","s","\"",":","{","}",",","\"","t","a","s","k","s",
      "\"",":","[","\"","S","t","e","p"," ","1","\"","]",",","\"","s","o","l","u","t","i","o","n",
      "_","c","o","m","m","a","n","d","s","\"",":","\"","v","l","a","n"," ","1","0","\"",",","\"",
      "v","e","r","i","f","i","c","a","t","i","o","n","_","c","o","m","m","a","n","d","s","\"",
      ":","\"","s","h","o","w"," ","v","l","a","n","\"","}">>

\* All seven fields, tasks null.
TextLabNullTasks ==
    <<"{","\"","l","a","b","_","t","i","t","l","e","\"",":","\"","N","\"",",","\"","s","c","e",
      "n","a","r","i","o","_","d","e","s","c","r","i","p","t","i","o","n","\"",":","\"","T","\"",
      ",","\"","t","o","p","o","l","o","g","y","_","c","o","n","n","e","c","t","i","o","n","s",
      "\"",":","[","]",",","\"","d","e","v","i","c","e","_","c","o","n","f","i","g","u","r","a",
      "t","i","o","n","s","\"",":","{","}",",","\"","t","a","s","k","s","\"",":","n","u","l","l",
      ",","\"","s","o","l","u","t","i","o","n","_","c","o","m","m","a","n","d","s","\"",":","\"",
      "v","l","a","n"," ","1","0","\"",",","\"","v","e","r","i","f","i","c","a","t","i","o","n",
      "_","c","o","m","m","a","n","d","s","\"",":","\"","s","h","o","w"," ","v","l","a","n","\"",
      "}">>
\* The provider call raised (network or provider failure, or response.text raised).
ProviderRaises == [raises |-> TRUE, text |-> <<>>]

\* The provider call returned a response with this text.
Answers(text) == [raises |-> FALSE, text |-> text]

ProviderOutcomes ==
    <<ProviderRaises, Answers(TextNotJson), Answers(TextPartialLab), Answers(TextLabA),
      Answers(TextLabB), Answers(TextLabNullTasks), Answers(TextList), Answers(TextNull),
      Answers(TextEmptyObject)>>

(***************************************************************************)
(* generate_lab (lines 47-64).                                             *)
(***************************************************************************)
FenceJson == <<BT, BT, BT, "j", "s", "o", "n">>

Fence == <<BT, BT, BT>>

\* A variant of clean_text with the two replacements in the other order.
clean_text_bare_first(text) == str_replace(str_replace(text, Fence, <<>>), FenceJson, <<>>)

\* line 59: response.text.replace("```json", "").replace("```", "")
clean_text(text) == str_replace(str_replace(text, FenceJson, <<>>), Fence, <<>>)

\* Lines 59-60 on each provider outcome: json.loads(clean_text), computed once.
Decoded == [o \in 1..Len(ProviderOutcomes) |-> json_loads(clean_text(ProviderOutcomes[o].text))]

\* st.error("Please enter the API Key in the sidebar!")
MsgNoKey == "Please enter the API Key in the sidebar!"

\* st.error(f"Error generating lab: {e}")
MsgError == "Error generating lab"

\* A variant of generate_lab without the check of the API key (lines 48-50).
generate_lab_no_guard(key, t, d, o) ==
    IF ProviderOutcomes[o].raises \/ ~Decoded[o].ok
    THEN [ret |-> None, error |-> MsgError, calls |-> 1, prompt |-> get_lab_prompt(t, d)]
    ELSE [ret |-> Decoded[o].v, error |-> "", calls |-> 1, prompt |-> get_lab_prompt(t, d)]

\* A variant of generate_lab that calls the provider a second time when the
\* first attempt fails.
generate_lab_retry(key, t, d, o) ==
    IF key = <<>>
    THEN [ret |-> None, error |-> MsgNoKey, calls |-> 0, prompt |-> <<>>]
    ELSE IF ProviderOutcomes[o].raises \/ ~Decoded[o].ok
         THEN [ret |-> None, error |-> MsgError, calls |-> 2,
               prompt |-> get_lab_prompt(t, d)]
         ELSE [ret |-> Decoded[o].v, error |-> "", calls |-> 1,
               prompt |-> get_lab_prompt(t, d)]

\* generate_lab() with the widgets' values and the provider's outcome o:
\* what it returns (ret), the st.error message it shows (error, "" for none),
\* the number of generate_content calls it makes and the prompt it sends.
generate_lab(key, t, d, o) ==
    IF key = <<>>
    THEN [ret |-> None, error |-> MsgNoKey, calls |-> 0, prompt |-> <<>>]
    ELSE IF ProviderOutcomes[o].raises \/ ~Decoded[o].ok
         THEN [ret |-> None, error |-> MsgError, calls |-> 1,
               prompt |-> get_lab_prompt(t, d)]
         ELSE [ret |-> Decoded[o].v, error |-> "", calls |-> 1,
               prompt |-> get_lab_prompt(t, d)]

\* A run of the script that does not press the button calls nothing.
NoGeneration == [ret |-> None, error |-> "", calls |-> 0, prompt |-> <<>>]

(***************************************************************************)
(* The trigger (lines 70-75) and st.session_state.                         *)
(***************************************************************************)
\* st.session_state without 'lab_data'
EmptySession == [has |-> FALSE, lab_data |-> None]

\* dict.update: d with the members keys[i]: vals[i] set, in order.
RECURSIVE DictUpdate(_, _, _)
DictUpdate(d, keys, vals) ==
    IF keys = <<>> THEN d
    ELSE DictUpdate(DictSet(d, Head(keys), Head(vals)), Tail(keys), Tail(vals))

\* A variant of StoreLab that updates the stored Lab with the new one's fields
\* instead of replacing it.
StoreLab_merge(ss, lab_data) ==
    IF ~Truthy(lab_data) THEN ss
    ELSE IF ss.has /\ ss.lab_data.kind = "obj" /\ lab_data.kind = "obj"
         THEN [has |-> TRUE,
               lab_data |-> DictUpdate(ss.lab_data, lab_data.keys, lab_data.vals)]
         ELSE [has |-> TRUE, lab_data |-> lab_data]

\* lines 73-75: if lab_data: st.session_state['lab_data'] = lab_data
StoreLab(ss, lab_data) ==
    IF Truthy(lab_data) THEN [has |-> TRUE, lab_data |-> lab_data] ELSE ss

(***************************************************************************)
(* The topology loop (lines 93-101).                                       *)
(***************************************************************************)
Arrow == <<"-", ">">>

\* One pass of the loop body: the edges it adds to the graph, one or none.
\* connection.split raises AttributeError on a non-string and parts[1] raises
\* IndexError when there is no '->'; the bare except swallows both.
EdgeOf(connection) ==
    IF connection.kind # "str"
    THEN <<>>
    ELSE LET parts == str_split(connection.str, Arrow)
         IN  IF Len(parts) < 2
             THEN <<>>
             ELSE <<[src |-> str_strip(parts[1]), dst |-> str_strip(parts[2])]>>

\* The whole loop: the graph's edges, in the order graph.edge was called.
RECURSIVE Edges(_)
Edges(conns) ==
    IF conns = <<>> THEN <<>> ELSE EdgeOf(Head(conns)) \o Edges(Tail(conns))

(***************************************************************************)
(* The display logic (lines 78-128).                                       *)
(***************************************************************************)
\* data[key]: "" when it yields a value, else the exception it raises.
Getitem(data, key) ==
    IF data.kind # "obj" THEN "TypeError"
    ELSE IF HasKey(data, key) THEN "" ELSE "KeyError"

\* for ... in v / enumerate(v) accepts a list, a str and a dict.
Iterable(v) == v.kind \in {"arr", "str", "obj"}

\* What iterating v yields: a list's items, a str's characters, a dict's keys.
Iterate(v) ==
    CASE v.kind = "arr" -> v.items
      [] v.kind = "str" -> [i \in 1..Len(v.str) |-> JStr(<<v.str[i]>>)]
      [] OTHER -> [i \in 1..Len(v.keys) |-> JStr(v.keys[i])]

\* data[key] followed by an iteration over it.
GetIterable(data, key) ==
    IF Getitem(data, key) # "" THEN Getitem(data, key)
    ELSE IF Iterable(Lookup(data, key)) THEN "" ELSE "TypeError"

\* The exception the display logic raises on data, "" when it runs through.
DisplayRaises(data) ==
    LET steps == <<Getitem(data, K_lab_title),
                   Getitem(data, K_scenario_description),
                   GetIterable(data, K_topology_connections),
                   Getitem(data, K_device_configurations),
                   GetIterable(data, K_tasks),
                   Getitem(data, K_verification_commands),
                   Getitem(data, K_solution_commands)>>
        bad == {i \in 1..Len(steps) : steps[i] # ""}
    IN  IF bad = {} THEN "" ELSE steps[Min(bad)]

\* The page below the title after a run: whether a Lab is drawn (lab), the
\* exception that cut the run short (raised) and the edges handed to
\* st.graphviz_chart (graph), empty when line 103 is not reached.
Display(ss) ==
    IF ~ss.has
    THEN [lab |-> FALSE, raised |-> "", graph |-> <<>>]
    ELSE [lab |-> TRUE,
          raised |-> DisplayRaises(ss.lab_data),
          graph |-> IF GetIterable(ss.lab_data, K_topology_connections) = ""
                       /\ Getitem(ss.lab_data, K_lab_title) = ""
                       /\ Getitem(ss.lab_data, K_scenario_description) = ""
                    THEN Edges(Iterate(Lookup(ss.lab_data, K_topology_connections)))
                    ELSE <<>>]

(***************************************************************************)
(* The session: one action per user interaction, each a full run of the    *)
(* script (widgets, trigger, display).                                     *)
(***************************************************************************)
VARIABLES
    api_key,        \* the text input's value (line 12)
    topic,          \* the selectbox's value (line 13)
    difficulty,     \* the slider's value (line 14)
    session_state,  \* st.session_state: [has, lab_data]
    callCount,      \* generate_content calls issued since the session began
    pressed,        \* whether the latest run was a press of "Generate New Lab"
    outcome,        \* the provider outcome of the latest run's call, 0 for no call
    returned,       \* what generate_lab returned in the latest run (None if not run)
    error,          \* the st.error message of the latest run, "" for none
    sent,           \* the prompt sent to the provider in the latest run
    rendered,       \* what the display logic drew in the latest run
    accepted,       \* history: the latest result the trigger accepted, [has, value]
    successes       \* history: how many results the trigger has accepted

app_vars ==
    <<api_key, topic, difficulty, session_state, callCount, pressed, outcome,
      returned, error, sent, rendered, accepted, successes>>

\* The topology loop run on its own over a connections list.
VARIABLES
    connections,    \* data['topology_connections'], a list
    position,       \* how many entries the loop has been through
    graph           \* the edges added so far

topo_vars == <<connections, position, graph>>

\* Lines 59-60 run on their own over a fenced document.
VARIABLES
    document,       \* the JSON document the provider meant
    response_text,  \* response.text: the document between fence markers
    stage,          \* "received", then "loaded"
    cleaned,        \* clean_text
    loaded          \* json.loads(clean_text): [ok, v]

clean_vars == <<document, response_text, stage, cleaned, loaded>>

vars == <<app_vars, topo_vars, clean_vars>>

\* The API keys a user may type: none, or one.
ApiKeys == {<<>>, <<"k", "e", "y">>}

\* The most generate_content calls followed in one session.
MaxCalls == 3

AppInit ==
    /\ api_key = <<>>
    /\ topic = TopicOSPF
    /\ difficulty = DifficultyJunior
    /\ session_state = EmptySession
    /\ callCount = 0
    /\ pressed = FALSE
    /\ outcome = 0
    /\ returned = None
    /\ error = ""
    /\ sent = <<>>
    /\ rendered = Display(EmptySession)
    /\ accepted = [has |-> FALSE, value |-> None]
    /\ successes = 0

TopoIdle == connections = <<>> /\ position = 0 /\ graph = <<>>

CleanIdle ==
    /\ document = <<>>
    /\ response_text = <<>>
    /\ stage = "loaded"
    /\ cleaned = <<>>
    /\ loaded = json_loads(<<>>)

\* Lines 70-75 of a run: the button was pressed or not, and generate_lab,
\* when the press ran it, made r of the provider's outcome o.
Trigger(press, o, r) ==
    /\ callCount + r.calls <= MaxCalls
    /\ pressed' = press
    /\ outcome' = IF r.calls > 0 THEN o ELSE 0
    /\ returned' = r.ret
    /\ error' = r.error
    /\ sent' = r.prompt
    /\ callCount' = callCount + r.calls
    /\ session_state' = IF press THEN StoreLab(session_state, r.ret) ELSE session_state
    /\ accepted' = IF press /\ Truthy(r.ret)
                   THEN [has |-> TRUE, value |-> r.ret]
                   ELSE accepted
    /\ successes' = IF press /\ Truthy(r.ret) THEN successes + 1 ELSE successes

\* One run of the script, top to bottom: the widgets hold key, t and d, the
\* button was pressed or not, and the provider (if called) answers with
\* outcome o; the display logic then draws what the session holds.
Script(key, t, d, press, o) ==
    /\ api_key' = key
    /\ topic' = t
    /\ difficulty' = d
    /\ Trigger(press, o, IF press THEN generate_lab(key, t, d, o) ELSE NoGeneration)
    /\ rendered' = Display(session_state')
    /\ UNCHANGED <<topo_vars, clean_vars>>

\* The user edits the API key.
EnterApiKey == \E k \in ApiKeys \ {api_key} : Script(k, topic, difficulty, FALSE, 1)

\* The user picks another topic.
SelectTopic == \E t \in Topics \ {topic} : Script(api_key, t, difficulty, FALSE, 1)

\* The user moves the difficulty slider.
SelectDifficulty ==
    \E d \in Difficulties \ {difficulty} : Script(api_key, topic, d, FALSE, 1)

\* Any other interaction (the expander, the download button) re-runs the script.
Rerun == Script(api_key, topic, difficulty, FALSE, 1)

\* The user presses "Generate New Lab".
PressGenerate ==
    \E o \in 1..Len(ProviderOutcomes) : Script(api_key, topic, difficulty, TRUE, o)

Init == AppInit /\ TopoIdle /\ CleanIdle

Next == EnterApiKey \/ SelectTopic \/ SelectDifficulty \/ Rerun \/ PressGenerate

Spec == Init /\ [][Next]_vars

(***************************************************************************)
(* The topology loop on its own: any list of entries, one pass per step.   *)
(***************************************************************************)
\* The texts on either side of an arrow: blank, a name, a padded name.
Segments == {<<" ">>, <<"A">>, <<" ", "B", " ">>}

\* The entries a connections list may hold: one, two or three segments joined
\* by '->', the empty string, a bare arrow, a dash without '>', a number.
ConnectionEntries ==
    {JStr(a) : a \in Segments}
    \cup {JStr(a \o Arrow \o b) : a \in Segments, b \in Segments}
    \cup {JStr(a \o Arrow \o b \o Arrow \o c) : a \in Segments, b \in Segments, c \in Segments}
    \cup {JStr(<<>>), JStr(Arrow), JStr(<<"A", "-", "B">>), JNum(7)}

\* The longest connections list followed.
MaxEntries == 2

ConnectionLists == UNION {[1..n -> ConnectionEntries] : n \in 0..MaxEntries}

TopoInit ==
    /\ connections \in ConnectionLists
    /\ position = 0
    /\ graph = <<>>

\* One pass of the for loop (lines 93-101) over the next entry.
TopologyLoopPass ==
    /\ position < Len(connections)
    /\ position' = position + 1
    /\ graph' = graph \o EdgeOf(connections[position + 1])
    /\ UNCHANGED <<connections, app_vars, clean_vars>>

InitTopo == AppInit /\ TopoInit /\ CleanIdle

NextTopo == TopologyLoopPass

SpecTopo == InitTopo /\ [][NextTopo]_vars

(***************************************************************************)
(* Lines 59-60 on their own: a JSON document arrives between a leading     *)
(* ```json and a trailing ```, is cleaned and loaded.                      *)
(***************************************************************************)
\* What a string value of the document is made of.
Pieces == {<<"a">>, <<BT>>, Fence, <<"j", "s", "o", "n">>}

\* The most pieces in a string value.
MaxPieces == 3

RECURSIVE Flatten(_)
Flatten(ps) == IF ps = <<>> THEN <<>> ELSE Head(ps) \o Flatten(Tail(ps))

StringValues == {Flatten(ps) : ps \in UNION {[1..n -> Pieces] : n \in 0..MaxPieces}}

StringDoc(c) == <<"\"">> \o c \o <<"\"">>

ArrayDoc(c) == <<"[">> \o StringDoc(c) \o <<"]">>

ObjectDoc(c) == <<"{", "\"", "k", "\"", ":">> \o StringDoc(c) \o <<"}">>

\* The JSON documents followed: a string, a list of one string, an object
\* with one string member.
Documents ==
    {StringDoc(c) : c \in StringValues}
    \cup {ArrayDoc(c) : c \in StringValues}
    \cup {ObjectDoc(c) : c \in StringValues}

\* The document as the provider fences it.
Fenced(doc) == FenceJson \o doc \o Fence

CleanInit ==
    /\ document \in Documents
    /\ response_text = Fenced(document)
    /\ stage = "received"
    /\ cleaned = <<>>
    /\ loaded = json_loads(<<>>)

\* Lines 59-60: clean_text = response.text.replace(...); json.loads(clean_text)
CleanAndLoad ==
    /\ stage = "received"
    /\ stage' = "loaded"
    /\ cleaned' = clean_text(response_text)
    /\ loaded' = json_loads(cleaned')
    /\ UNCHANGED <<document, response_text, app_vars, topo_vars>>

InitClean == AppInit /\ TopoIdle /\ CleanInit

NextClean == CleanAndLoad

SpecClean == InitClean /\ [][NextClean]_vars

(***************************************************************************)
(* Properties.                                                             *)
(***************************************************************************)
\* v is a Lab: a JSON object with all seven fields.
IsLab(v) == v.kind = "obj" /\ \A i \in 1..Len(LabKeys) : HasKey(v, LabKeys[i])

\* The latest run pressed the button and its generation failed in the sense
\* of the specification: no credential, a provider failure, a response that
\* is not JSON, or JSON that is not a Lab with all seven fields.
FailedGeneration ==
    /\ pressed
    /\ IF outcome = 0 THEN api_key = <<>>
       ELSE \/ ProviderOutcomes[outcome].raises
            \/ ~Decoded[outcome].ok
            \/ ~IsLab(Decoded[outcome].v)

\* The latest run's provider response was JSON, but not a Lab with all seven fields.
PayloadMissingField ==
    /\ pressed
    /\ outcome # 0
    /\ ~ProviderOutcomes[outcome].raises
    /\ Decoded[outcome].ok
    /\ ~IsLab(Decoded[outcome].v)

\* C1: a response whose JSON payload misses one of the seven fields makes
\* generate_lab return no Lab and report an error, and the Lab held in the
\* session always has all seven fields.
C1_NoPartialLab ==
    /\ PayloadMissingField => (returned = None /\ error # "")
    /\ session_state.has => IsLab(session_state.lab_data)

\* C2: a press with an empty API key reports the missing key, returns no
\* Lab and issues no provider call (the call count does not change).
C2_EmptyKeyNoCall ==
    [][(pressed' /\ api_key' = <<>>) =>
            /\ error' = MsgNoKey
            /\ returned' = None
            /\ sent' = <<>>
            /\ callCount' = callCount]_vars

\* C2's case: an empty key is refused after earlier presses did call the provider.
C2_Witness ==
    /\ pressed
    /\ api_key = <<>>
    /\ error = MsgNoKey
    /\ callCount > 0

\* C3: a press whose generation fails leaves the session's Lab as it was.
C3_FailureKeepsLab ==
    [][FailedGeneration' => session_state' = session_state]_vars

C7_PromptWithoutFence ==
    sent # <<>> =>
        /\ Contains(sent, topic)
        /\ Contains(sent, difficulty)
        /\ ~Contains(sent, Fence)

\* C7, amended: the prompt names the topic and the difficulty, and holds
\* three consecutive backticks in exactly one place, the ```json of the
\* sentence that forbids markdown.
C7_PromptNamesTopicAndDifficulty ==
    sent # <<>> =>
        /\ Contains(sent, topic)
        /\ Contains(sent, difficulty)
        /\ \E p \in 1..Len(sent) :
              /\ OccursAt(sent, FenceJson, p)
              /\ \A q \in 1..Len(sent) : OccursAt(sent, Fence, q) => q = p

\* C7's case: a prompt was built for a topic and a difficulty other than the defaults.
C7_Witness ==
    /\ sent # <<>>
    /\ topic = TopicVLAN
    /\ difficulty = DifficultyExpert
    /\ Contains(sent, TopicVLAN)
    /\ Contains(sent, DifficultyExpert)

\* C8: whatever the provider answered, the display logic never raises.
C8_DisplayNeverRaises == rendered.raised = ""

\* C10: a run issues one provider call when it is a press with a non-empty
\* key, and none otherwise.
C10_OneCallPerPress ==
    [][callCount' = callCount + (IF pressed' /\ api_key' # <<>> THEN 1 ELSE 0)]_vars

\* C10's case: a press whose generation failed, after exactly one call.
C10_Witness ==
    /\ pressed
    /\ api_key # <<>>
    /\ error = MsgError
    /\ callCount = 1

\* The entry holds '->' at least once.
HasArrow(c) == c.kind = "str" /\ Find(c.str, Arrow, 1) # 0

\* The text of the entry before its first '->' and the text after it.
BeforeArrow(c) == SubSeq(c.str, 1, Find(c.str, Arrow, 1) - 1)

AfterArrow(c) == SubSeq(c.str, Find(c.str, Arrow, 1) + 2, Len(c.str))

\* The edge C5 expects of an entry: one when '->' splits it in exactly two
\* segments, both non-empty once trimmed.
C5_EdgeOf(c) ==
    IF /\ HasArrow(c)
       /\ ~Contains(AfterArrow(c), Arrow)
       /\ str_strip(BeforeArrow(c)) # <<>>
       /\ str_strip(AfterArrow(c)) # <<>>
    THEN <<[src |-> str_strip(BeforeArrow(c)), dst |-> str_strip(AfterArrow(c))]>>
    ELSE <<>>

RECURSIVE C5_Edges(_)
C5_Edges(conns) ==
    IF conns = <<>> THEN <<>> ELSE C5_EdgeOf(Head(conns)) \o C5_Edges(Tail(conns))

\* C5: after the loop the edges are, in input order, one per entry that
\* splits in exactly two non-empty trimmed segments, and no edge has an
\* empty label.
C5_EdgesOfWellFormedEntries ==
    position = Len(connections) =>
        /\ graph = C5_Edges(connections)
        /\ \A i \in 1..Len(graph) : graph[i].src # <<>> /\ graph[i].dst # <<>>

\* The entry the loop went through last holds '->' more than once.
LastHasTwoArrows ==
    /\ position >= 1
    /\ HasArrow(connections[position])
    /\ Contains(AfterArrow(connections[position]), Arrow)

\* C9 as stated: for an entry with more than one '->' the destination is
\* the whole trimmed text after the first '->'.
C9_DestinationIsRest ==
    LastHasTwoArrows =>
        /\ graph # <<>>
        /\ graph[Len(graph)] =
              [src |-> str_strip(BeforeArrow(connections[position])),
               dst |-> str_strip(AfterArrow(connections[position]))]

\* C9, amended: for an entry with more than one '->' the source is the
\* trimmed text before the first '->' and the destination the trimmed text
\* between the first and the second '->'; what follows the second is dropped.
C9_DestinationIsSecondSegment ==
    LastHasTwoArrows =>
        /\ graph # <<>>
        /\ graph[Len(graph)] =
              [src |-> str_strip(BeforeArrow(connections[position])),
               dst |-> str_strip(SubSeq(AfterArrow(connections[position]), 1,
                          Find(AfterArrow(connections[position]), Arrow, 1) - 1))]

\* C9's case: "A-> B ->A" gave the edge from A to B.
C9_Witness ==
    /\ position >= 1
    /\ connections[position] = JStr(<<"A", "-", ">", " ", "B", " ", "-", ">", "A">>)
    /\ graph # <<>>
    /\ graph[Len(graph)] = [src |-> <<"A">>, dst |-> <<"B">>]

\* C6 as stated: cleaning a fenced document gives back the document, and
\* loading the cleaned text gives the document's value.
C6_CleanedIsDocument ==
    stage = "loaded" =>
        /\ cleaned = document
        /\ loaded.ok
        /\ loaded = json_loads(document)

\* C6, amended: the same, for documents that hold no three consecutive
\* backticks.
C6_CleanedIsDocumentWithoutFence ==
    (stage = "loaded" /\ ~Contains(document, Fence)) =>
        /\ cleaned = document
        /\ loaded.ok
        /\ loaded = json_loads(document)

\* C6's case: a document with two backticks in a row, short of a fence,
\* came back whole.
C6_Witness ==
    /\ stage = "loaded"
    /\ ~Contains(document, Fence)
    /\ Contains(document, <<BT, BT>>)
    /\ cleaned = document
    /\ loaded.ok
====
